---- MODULE Spec2Model ----
(***************************************************************************)
(* pgoutput-decoder: the pgoutput binary decoder (src/src/pgoutput) and    *)
(* the LogicalReplicationReader built on it (src/src/replication.rs).      *)
(*                                                                         *)
(* Bytes are integers 0..255, a payload (bytes::Bytes) is a sequence of    *)
(* bytes, an Option<T> is a sequence of length at most one (<<>> is None,  *)
(* <<x>> is Some(x)), a String is its sequence of UTF-8 bytes.             *)
(***************************************************************************)
EXTENDS Integers, Sequences, FiniteSets, TLC

\* ------------------------------------------------------------------------
\* Option
\* ------------------------------------------------------------------------
None == <<>>

Some(x) == <<x>>

IsSome(o) == Len(o) = 1

\* ------------------------------------------------------------------------
\* bytes::Buf cursor reads.  A read returns [st, v, rest]; st = "panic" is
\* the Buf contract's panic when fewer bytes remain than the read needs.
\* ------------------------------------------------------------------------
Panic == [st |-> "panic"]

Err(kind) == [st |-> "err", kind |-> kind]

Drop(data, n) == SubSeq(data, n + 1, Len(data))

Take(data, n) == SubSeq(data, 1, n)

\* big-endian value of the bytes bs appended to the value acc
RECURSIVE Fold256(_, _)
Fold256(acc, bs) ==
    IF Len(bs) = 0 THEN acc
    ELSE Fold256(acc * 256 + bs[1], Drop(bs, 1))

get_uint(data, n) ==
    IF Len(data) < n THEN Panic
    ELSE [st |-> "ok", v |-> Fold256(0, Take(data, n)), rest |-> Drop(data, n)]

get_u8(data) == get_uint(data, 1)

get_u16(data) == get_uint(data, 2)

get_u32(data) == get_uint(data, 4)

get_u64(data) == get_uint(data, 8)

\* two's complement: the top byte carries the sign
get_int(data, n) ==
    IF Len(data) < n THEN Panic
    ELSE LET top == IF data[1] >= 128 THEN data[1] - 256 ELSE data[1]
         IN [st |-> "ok", v |-> Fold256(top, SubSeq(data, 2, n)),
             rest |-> Drop(data, n)]

get_i32(data) == get_int(data, 4)

get_i64(data) == get_int(data, 8)

\* a copy that leaves the cursor where it was
copy_to_slice_peek(data, len) ==
    IF Len(data) < len THEN Panic
    ELSE [st |-> "ok", v |-> Take(data, len), rest |-> data]

copy_to_slice(data, len) ==
    IF Len(data) < len THEN Panic
    ELSE [st |-> "ok", v |-> Take(data, len), rest |-> Drop(data, len)]

\* ------------------------------------------------------------------------
\* String::from_utf8: well-formed UTF-8 (1- to 4-byte sequences, no
\* overlong forms, no surrogates, nothing above U+10FFFF).
\* ------------------------------------------------------------------------
IsCont(b) == b >= 128 /\ b <= 191

RECURSIVE IsUtf8(_)
IsUtf8(bs) ==
    IF Len(bs) = 0 THEN TRUE
    ELSE LET b == bs[1] IN
         IF b < 128 THEN IsUtf8(Drop(bs, 1))
         ELSE IF b >= 194 /\ b <= 223
              THEN Len(bs) >= 2 /\ IsCont(bs[2]) /\ IsUtf8(Drop(bs, 2))
         ELSE IF b >= 224 /\ b <= 239
              THEN /\ Len(bs) >= 3
                   /\ IsCont(bs[2]) /\ IsCont(bs[3])
                   /\ (b = 224 => bs[2] >= 160)
                   /\ (b = 237 => bs[2] <= 159)
                   /\ IsUtf8(Drop(bs, 3))
         ELSE IF b >= 240 /\ b <= 244
              THEN /\ Len(bs) >= 4
                   /\ IsCont(bs[2]) /\ IsCont(bs[3]) /\ IsCont(bs[4])
                   /\ (b = 240 => bs[2] >= 144)
                   /\ (b = 244 => bs[2] <= 143)
                   /\ IsUtf8(Drop(bs, 4))
         ELSE FALSE

\* index of the first NUL of data, 0 when there is none
RECURSIVE FirstNul(_, _)
FirstNul(data, i) ==
    IF i > Len(data) THEN 0
    ELSE IF data[i] = 0 THEN i
    ELSE FirstNul(data, i + 1)

\* a string reader that does not validate the bytes
read_cstring_unchecked(data) ==
    LET z == FirstNul(data, 1) IN
    IF z = 0 THEN Err("UnexpectedEof")
    ELSE [st |-> "ok", v |-> Take(data, z - 1), rest |-> Drop(data, z)]

\* read_cstring: the bytes before the first NUL, which is consumed
read_cstring(data) ==
    LET z == FirstNul(data, 1) IN
    IF z = 0 THEN Err("UnexpectedEof")
    ELSE IF ~IsUtf8(Take(data, z - 1)) THEN Err("InvalidUtf8")
    ELSE [st |-> "ok", v |-> Take(data, z - 1), rest |-> Drop(data, z)]

\* ------------------------------------------------------------------------
\* read_tuple_data: n_columns:u16, then one tagged value per column.
\* A column value is Option<Vec<u8>>: 'n' and 'u' both give None.
\* ------------------------------------------------------------------------
\* the byte literals the decoder matches on (b'N', 'n' as u8, ...)
Ascii ==
    [B |-> 66, C |-> 67, D |-> 68, I |-> 73, K |-> 75, M |-> 77, N |-> 78,
     O |-> 79, R |-> 82, T |-> 84, U |-> 85, Y |-> 89, n |-> 110, t |-> 116,
     u |-> 117]

\* a column reader that takes an unknown tag for NULL
read_column_lenient(data) ==
    LET t == get_u8(data) IN
    IF t.st # "ok" THEN t
    ELSE IF t.v = Ascii.t
         THEN LET len == get_u32(t.rest) IN
              IF len.st # "ok" THEN len
              ELSE LET bytes == copy_to_slice(len.rest, len.v) IN
                   IF bytes.st # "ok" THEN bytes
                   ELSE [st |-> "ok", v |-> Some(bytes.v), rest |-> bytes.rest]
    ELSE [st |-> "ok", v |-> None, rest |-> t.rest]

read_column(data) ==
    LET t == get_u8(data) IN
    IF t.st # "ok" THEN t
    ELSE IF t.v = Ascii.n THEN [st |-> "ok", v |-> None, rest |-> t.rest]
    ELSE IF t.v = Ascii.u THEN [st |-> "ok", v |-> None, rest |-> t.rest]
    ELSE IF t.v = Ascii.t
         THEN LET len == get_u32(t.rest) IN
              IF len.st # "ok" THEN len
              ELSE LET bytes == copy_to_slice(len.rest, len.v) IN
                   IF bytes.st # "ok" THEN bytes
                   ELSE [st |-> "ok", v |-> Some(bytes.v), rest |-> bytes.rest]
    ELSE Err("UnknownTupleValueType")

RECURSIVE read_columns(_, _, _)
read_columns(data, n, tuple) ==
    IF n = 0 THEN [st |-> "ok", v |-> tuple, rest |-> data]
    ELSE LET c == read_column(data) IN
         IF c.st # "ok" THEN c
         ELSE read_columns(c.rest, n - 1, Append(tuple, c.v))

read_tuple_data(data) ==
    LET n_columns == get_u16(data) IN
    IF n_columns.st # "ok" THEN n_columns
    ELSE read_columns(n_columns.rest, n_columns.v, <<>>)

\* ------------------------------------------------------------------------
\* PgOutputDecoder.  relations is the HashMap<u32, RelationMessage>: a
\* function from the cached rel_ids.  A decode_* operator returns
\* [st |-> "ok", msg |-> ...], an Err(kind) or Panic.
\* ------------------------------------------------------------------------
Ok(msg) == [st |-> "ok", msg |-> msg]

new_relations == <<>>

\* a cache that keeps the entry it has
insert_if_absent(relations, rel_id, relation) ==
    [k \in DOMAIN relations \cup {rel_id} |->
        IF k \in DOMAIN relations THEN relations[k] ELSE relation]

\* self.relations.insert(rel_id, relation): HashMap::insert overwrites
insert(relations, rel_id, relation) ==
    [k \in DOMAIN relations \cup {rel_id} |->
        IF k = rel_id THEN relation ELSE relations[k]]

get_relation(relations, rel_id) ==
    IF rel_id \in DOMAIN relations THEN Some(relations[rel_id]) ELSE None

decode_begin(data) ==
    LET final_lsn == get_u64(data) IN
    IF final_lsn.st # "ok" THEN final_lsn ELSE
    LET timestamp == get_i64(final_lsn.rest) IN
    IF timestamp.st # "ok" THEN timestamp ELSE
    LET xid == get_u32(timestamp.rest) IN
    IF xid.st # "ok" THEN xid ELSE
    Ok([type |-> "Begin", final_lsn |-> final_lsn.v,
        timestamp |-> timestamp.v, xid |-> xid.v])

decode_commit(data) ==
    LET flags == get_u8(data) IN
    IF flags.st # "ok" THEN flags ELSE
    LET commit_lsn == get_u64(flags.rest) IN
    IF commit_lsn.st # "ok" THEN commit_lsn ELSE
    LET end_lsn == get_u64(commit_lsn.rest) IN
    IF end_lsn.st # "ok" THEN end_lsn ELSE
    LET timestamp == get_i64(end_lsn.rest) IN
    IF timestamp.st # "ok" THEN timestamp ELSE
    Ok([type |-> "Commit", flags |-> flags.v, commit_lsn |-> commit_lsn.v,
        end_lsn |-> end_lsn.v, timestamp |-> timestamp.v])

read_column_info(data) ==
    LET flags == get_u8(data) IN
    IF flags.st # "ok" THEN flags ELSE
    LET col_name == read_cstring(flags.rest) IN
    IF col_name.st # "ok" THEN col_name ELSE
    LET type_id == get_u32(col_name.rest) IN
    IF type_id.st # "ok" THEN type_id ELSE
    LET type_modifier == get_i32(type_id.rest) IN
    IF type_modifier.st # "ok" THEN type_modifier ELSE
    [st |-> "ok", rest |-> type_modifier.rest,
     v |-> [flags |-> flags.v, name |-> col_name.v, type_id |-> type_id.v,
            type_modifier |-> type_modifier.v]]

RECURSIVE read_column_infos(_, _, _)
read_column_infos(data, n, columns) ==
    IF n = 0 THEN [st |-> "ok", v |-> columns, rest |-> data]
    ELSE LET c == read_column_info(data) IN
         IF c.st # "ok" THEN c
         ELSE read_column_infos(c.rest, n - 1, Append(columns, c.v))

\* returns the decoder's relations too: the cache is written only on the
\* path that reaches the insert
decode_relation(relations, data) ==
    LET rel_id == get_u32(data) IN
    IF rel_id.st # "ok" THEN rel_id ELSE
    LET namespace == read_cstring(rel_id.rest) IN
    IF namespace.st # "ok" THEN namespace ELSE
    LET name == read_cstring(namespace.rest) IN
    IF name.st # "ok" THEN name ELSE
    LET replica_identity == get_u8(name.rest) IN
    IF replica_identity.st # "ok" THEN replica_identity ELSE
    LET n_columns == get_u16(replica_identity.rest) IN
    IF n_columns.st # "ok" THEN n_columns ELSE
    LET columns == read_column_infos(n_columns.rest, n_columns.v, <<>>) IN
    IF columns.st # "ok" THEN columns ELSE
    LET relation == [type |-> "Relation", rel_id |-> rel_id.v,
                     namespace |-> namespace.v, name |-> name.v,
                     replica_identity |-> replica_identity.v,
                     columns |-> columns.v]
    IN [st |-> "ok", msg |-> relation,
        relations |-> insert(relations, rel_id.v, relation)]

decode_insert(data) ==
    LET rel_id == get_u32(data) IN
    IF rel_id.st # "ok" THEN rel_id ELSE
    LET tuple_type == get_u8(rel_id.rest) IN
    IF tuple_type.st # "ok" THEN tuple_type ELSE
    IF tuple_type.v # Ascii.N THEN Err("ExpectedNewTuple") ELSE
    LET tuple == read_tuple_data(tuple_type.rest) IN
    IF tuple.st # "ok" THEN tuple ELSE
    Ok([type |-> "Insert", rel_id |-> rel_id.v, tuple |-> tuple.v])

\* an Update reader that takes no sentinel for the mark of an old tuple
read_old_tuple_ignored(tuple_type, data) ==
    [st |-> "ok", v |-> None, rest |-> data]

\* the old tuple of an Update: Some(old) after 'O' or 'K' (one more byte is
\* then consumed, whatever it is), None after 'N'
read_old_tuple(tuple_type, data) ==
    IF tuple_type = Ascii.O \/ tuple_type = Ascii.K
    THEN LET old == read_tuple_data(data) IN
         IF old.st # "ok" THEN old ELSE
         LET n == get_u8(old.rest) IN
         IF n.st # "ok" THEN n ELSE
         [st |-> "ok", v |-> Some(old.v), rest |-> n.rest]
    ELSE IF tuple_type = Ascii.N
    THEN [st |-> "ok", v |-> None, rest |-> data]
    ELSE Err("UnexpectedTupleType")

decode_update(data) ==
    LET rel_id == get_u32(data) IN
    IF rel_id.st # "ok" THEN rel_id ELSE
    LET tuple_type == get_u8(rel_id.rest) IN
    IF tuple_type.st # "ok" THEN tuple_type ELSE
    LET old_tuple == read_old_tuple(tuple_type.v, tuple_type.rest) IN
    IF old_tuple.st # "ok" THEN old_tuple ELSE
    LET new_tuple == read_tuple_data(old_tuple.rest) IN
    IF new_tuple.st # "ok" THEN new_tuple ELSE
    Ok([type |-> "Update", rel_id |-> rel_id.v, old_tuple |-> old_tuple.v,
        new_tuple |-> new_tuple.v])

\* a Delete decoder that reads the tuple after any sentinel
decode_delete_any_sentinel(data) ==
    LET rel_id == get_u32(data) IN
    IF rel_id.st # "ok" THEN rel_id ELSE
    LET tuple_type == get_u8(rel_id.rest) IN
    IF tuple_type.st # "ok" THEN tuple_type ELSE
    LET old_tuple == read_tuple_data(tuple_type.rest) IN
    IF old_tuple.st # "ok" THEN old_tuple ELSE
    Ok([type |-> "Delete", rel_id |-> rel_id.v, old_tuple |-> old_tuple.v])

decode_delete(data) ==
    LET rel_id == get_u32(data) IN
    IF rel_id.st # "ok" THEN rel_id ELSE
    LET tuple_type == get_u8(rel_id.rest) IN
    IF tuple_type.st # "ok" THEN tuple_type ELSE
    IF tuple_type.v # Ascii.O /\ tuple_type.v # Ascii.K
    THEN Err("ExpectedOldTuple") ELSE
    LET old_tuple == read_tuple_data(tuple_type.rest) IN
    IF old_tuple.st # "ok" THEN old_tuple ELSE
    Ok([type |-> "Delete", rel_id |-> rel_id.v, old_tuple |-> old_tuple.v])

RECURSIVE read_rel_ids(_, _, _)
read_rel_ids(data, n, rel_ids) ==
    IF n = 0 THEN [st |-> "ok", v |-> rel_ids, rest |-> data]
    ELSE LET id == get_u32(data) IN
         IF id.st # "ok" THEN id
         ELSE read_rel_ids(id.rest, n - 1, Append(rel_ids, id.v))

decode_truncate(data) ==
    LET n_relations == get_u32(data) IN
    IF n_relations.st # "ok" THEN n_relations ELSE
    LET options == get_u8(n_relations.rest) IN
    IF options.st # "ok" THEN options ELSE
    LET rel_ids == read_rel_ids(options.rest, n_relations.v, <<>>) IN
    IF rel_ids.st # "ok" THEN rel_ids ELSE
    Ok([type |-> "Truncate", options |-> options.v, rel_ids |-> rel_ids.v])

decode_type(data) ==
    LET type_id == get_u32(data) IN
    IF type_id.st # "ok" THEN type_id ELSE
    LET namespace == read_cstring(type_id.rest) IN
    IF namespace.st # "ok" THEN namespace ELSE
    LET name == read_cstring(namespace.rest) IN
    IF name.st # "ok" THEN name ELSE
    Ok([type |-> "Type", type_id |-> type_id.v, namespace |-> namespace.v,
        name |-> name.v])

decode_origin(data) ==
    LET lsn == get_u64(data) IN
    IF lsn.st # "ok" THEN lsn ELSE
    LET name == read_cstring(lsn.rest) IN
    IF name.st # "ok" THEN name ELSE
    Ok([type |-> "Origin", lsn |-> lsn.v, name |-> name.v])

decode_message(data) ==
    LET flags == get_u8(data) IN
    IF flags.st # "ok" THEN flags ELSE
    LET lsn == get_u64(flags.rest) IN
    IF lsn.st # "ok" THEN lsn ELSE
    LET prefix == read_cstring(lsn.rest) IN
    IF prefix.st # "ok" THEN prefix ELSE
    LET content_len == get_u32(prefix.rest) IN
    IF content_len.st # "ok" THEN content_len ELSE
    LET content == copy_to_slice(content_len.rest, content_len.v) IN
    IF content.st # "ok" THEN content ELSE
    Ok([type |-> "Message", transactional |-> (flags.v % 2) # 0,
        lsn |-> lsn.v, prefix |-> prefix.v, content |-> content.v])

\* a decode_* result with the (unchanged) cache attached
\* a decoder that forgets its relations on every other message
Keep_clearing(r, relations) ==
    IF r.st = "ok" THEN [st |-> "ok", msg |-> r.msg, relations |-> <<>>]
    ELSE r

Keep(r, relations) ==
    IF r.st = "ok"
    THEN [st |-> "ok", msg |-> r.msg, relations |-> relations]
    ELSE r

\* a decoder that takes every payload for a Begin, whatever its first byte
decode_any_tag(relations, data) ==
    Keep(decode_begin(Drop(data, 1)), relations)

decode(relations, data) ==
    IF Len(data) = 0 THEN Err("EmptyMessage") ELSE
    LET msg_type == data[1]
        rest == Drop(data, 1)
    IN CASE msg_type = Ascii.B -> Keep(decode_begin(rest), relations)
         [] msg_type = Ascii.C -> Keep(decode_commit(rest), relations)
         [] msg_type = Ascii.R -> decode_relation(relations, rest)
         [] msg_type = Ascii.I -> Keep(decode_insert(rest), relations)
         [] msg_type = Ascii.U -> Keep(decode_update(rest), relations)
         [] msg_type = Ascii.D -> Keep(decode_delete(rest), relations)
         [] msg_type = Ascii.T -> Keep(decode_truncate(rest), relations)
         [] msg_type = Ascii.Y -> Keep(decode_type(rest), relations)
         [] msg_type = Ascii.O -> Keep(decode_origin(rest), relations)
         [] msg_type = Ascii.M -> Keep(decode_message(rest), relations)
         [] OTHER -> Err("UnknownMessageType")

\* ------------------------------------------------------------------------
\* convert_pg_value / convert_message: the consumer's ReplicationMessage.
\* A row is the PyDict built from a tuple: column name -> value, for the
\* tuple positions the relation has a column for.  A value is None (Python
\* None) or Some(<<type_id, bytes>>): the bytes as converted for type_id.
\* ------------------------------------------------------------------------
convert_pg_value(data, type_id) ==
    IF IsSome(data) THEN Some(<<type_id, data[1]>>) ELSE None

row(tuple, columns) ==
    LET idx == {i \in 1..Len(tuple) : i <= Len(columns)}
        names == {columns[i].name : i \in idx}
        last(nm) == CHOOSE i \in idx :
                        /\ columns[i].name = nm
                        /\ \A j \in idx : columns[j].name = nm => j <= i
    IN [nm \in names |->
            convert_pg_value(tuple[last(nm)], columns[last(nm)].type_id)]

\* a message that does not carry the LSN of its event
ReplicationMessage_unstamped(op, before, after, relation, lsn) ==
    [op |-> op, before |-> before, after |-> after,
     source |-> [schema |-> relation.namespace, table |-> relation.name,
                 lsn |-> 0],
     rel_id |-> relation.rel_id]

\* a message with the two row images exchanged
ReplicationMessage_swapped(op, before, after, relation, lsn) ==
    [op |-> op, before |-> after, after |-> before,
     source |-> [schema |-> relation.namespace, table |-> relation.name,
                 lsn |-> lsn],
     rel_id |-> relation.rel_id]

ReplicationMessage(op, before, after, relation, lsn) ==
    [op |-> op, before |-> before, after |-> after,
     source |-> [schema |-> relation.namespace, table |-> relation.name,
                 lsn |-> lsn],
     rel_id |-> relation.rel_id]

\* a converter that builds the row message without looking the relation up
convert_message_unchecked(msg, relations, lsn) ==
    IF msg.type \in {"Insert", "Update", "Delete"}
    THEN Some([op |-> "c", before |-> None, after |-> Some(<<>>),
               source |-> [schema |-> <<>>, table |-> <<>>, lsn |-> lsn],
               rel_id |-> msg.rel_id])
    ELSE None

convert_message(msg, relations, lsn) ==
    IF msg.type = "Insert"
    THEN LET relation == get_relation(relations, msg.rel_id) IN
         IF IsSome(relation)
         THEN Some(ReplicationMessage("c", None,
                       Some(row(msg.tuple, relation[1].columns)),
                       relation[1], lsn))
         ELSE None
    ELSE IF msg.type = "Update"
    THEN LET relation == get_relation(relations, msg.rel_id) IN
         IF IsSome(relation)
         THEN Some(ReplicationMessage("u",
                       IF IsSome(msg.old_tuple)
                       THEN Some(row(msg.old_tuple[1], relation[1].columns))
                       ELSE None,
                       Some(row(msg.new_tuple, relation[1].columns)),
                       relation[1], lsn))
         ELSE None
    ELSE IF msg.type = "Delete"
    THEN LET relation == get_relation(relations, msg.rel_id) IN
         IF IsSome(relation)
         THEN Some(ReplicationMessage("d",
                       Some(row(msg.old_tuple, relation[1].columns)), None,
                       relation[1], lsn))
         ELSE None
    ELSE None

\* ------------------------------------------------------------------------
\* ReplicationClient (crate pgwire_replication): one connection with its
\* progress ledger.  applied is last_applied (= last_flushed), wal the
\* wal_end of the last XLogData received (last_written), term whether the
\* session has ended (end of stream, StoppedAt or an error), dropped
\* whether the reader has dropped the client value.
\* ------------------------------------------------------------------------
Max(a, b) == IF a >= b THEN a ELSE b

connect == [applied |-> 0, wal |-> 0, term |-> FALSE, dropped |-> FALSE]

\* dropping the client value closes the connection and frees its ledger
drop == [applied |-> 0, wal |-> 0, term |-> TRUE, dropped |-> TRUE]

\* a ledger that takes the LSN as given, without the max
update_applied_lsn_unclamped(c, lsn) == [c EXCEPT !.applied = lsn]

\* update_applied_lsn(lsn): last_applied = max(prior, lsn)

update_applied_lsn(c, lsn) == [c EXCEPT !.applied = Max(c.applied, lsn)]

\* ------------------------------------------------------------------------
\* str::parse::<u64>: an optional '+', then one or more ASCII digits.
\* A string here is a sequence of one-character strings.
\* ------------------------------------------------------------------------
DigitChars == <<"0", "1", "2", "3", "4", "5", "6", "7", "8", "9">>

IsDigit(ch) == \E i \in 1..10 : DigitChars[i] = ch

DigitVal(ch) == (CHOOSE i \in 1..10 : DigitChars[i] = ch) - 1

RECURSIVE DigitsVal(_)
DigitsVal(s) ==
    IF Len(s) = 0 THEN 0
    ELSE DigitsVal(Take(s, Len(s) - 1)) * 10 + DigitVal(s[Len(s)])

parse_u64(s) ==
    LET digits == IF Len(s) > 0 /\ s[1] = "+" THEN Drop(s, 1) ELSE s IN
    IF Len(digits) = 0 \/ \E i \in 1..Len(digits) : ~IsDigit(digits[i])
    THEN Err("ParseIntError")
    ELSE [st |-> "ok", v |-> DigitsVal(digits)]

\* Lsn::parse of the replication client: the text X/Y, X and Y one to
\* eight hexadecimal digits, is the position X * 2^32 + Y
HexChars ==
    <<"0", "1", "2", "3", "4", "5", "6", "7", "8", "9",
      "A", "B", "C", "D", "E", "F">>

LowerHexChars == <<"a", "b", "c", "d", "e", "f">>

IsHex(ch) ==
    \/ \E i \in 1..16 : HexChars[i] = ch
    \/ \E i \in 1..6 : LowerHexChars[i] = ch

HexVal(ch) ==
    IF \E i \in 1..16 : HexChars[i] = ch
    THEN (CHOOSE i \in 1..16 : HexChars[i] = ch) - 1
    ELSE (CHOOSE i \in 1..6 : LowerHexChars[i] = ch) + 9

RECURSIVE HexDigitsVal(_)
HexDigitsVal(s) ==
    IF Len(s) = 0 THEN 0
    ELSE HexDigitsVal(Take(s, Len(s) - 1)) * 16 + HexVal(s[Len(s)])

FirstSlash(s) ==
    IF \E i \in 1..Len(s) : s[i] = "/"
    THEN CHOOSE i \in 1..Len(s) :
             s[i] = "/" /\ \A j \in 1..(i - 1) : s[j] # "/"
    ELSE 0

IsHexWord(s) ==
    Len(s) \in 1..8 /\ \A i \in 1..Len(s) : IsHex(s[i])

Lsn_parse(s) ==
    LET k == FirstSlash(s) IN
    IF k = 0 \/ ~IsHexWord(Take(s, k - 1)) \/ ~IsHexWord(Drop(s, k))
    THEN Err("InvalidLsn")
    ELSE LET hi == HexDigitsVal(Take(s, k - 1))
             lo == HexDigitsVal(Drop(s, k))
         IN  [st |-> "ok",
              v |-> IF hi = 0 THEN lo ELSE hi * 65536 * 65536 + lo]

Lsn_ZERO == 0

\* ------------------------------------------------------------------------
\* ExponentialBackoff
\* ------------------------------------------------------------------------

InitialDelayMs == 100

MaxDelayMs == 30000

Multiplier == 2

Min(a, b) == IF a <= b THEN a ELSE b

new_backoff == [current_delay |-> InitialDelayMs, attempts |-> 0]

\* a backoff that keeps doubling past max_delay
next_delay_uncapped(delay) == delay * Multiplier

\* wait: the delay of the next wait, from the delay just slept
next_delay(delay) == Min(delay * Multiplier, MaxDelayMs)

\* wait: what it sleeps, and the fields after it
wait(b) ==
    [slept |-> b.current_delay,
     attempts |-> b.attempts + 1,
     current_delay |-> next_delay(b.current_delay)]

reset(b) == [current_delay |-> InitialDelayMs, attempts |-> 0]

\* ------------------------------------------------------------------------
\* LogicalReplicationReader: the decisions of __anext__ and acknowledge
\* ------------------------------------------------------------------------

\* a reader that connects whenever the cell is empty, stopped or not
needs_connect_ignoring_stop(cell, stop_flag) == cell = None

\* __anext__: whether the initialisation block connects
needs_connect(cell, stop_flag) == cell = None /\ ~stop_flag

\* a reader that returns the end of the stream after any non-data event
ends_stream_always(kind) == TRUE

\* __anext__: whether a non-data event ends the call with None
ends_stream(kind) == kind = "StoppedAt"

\* __anext__: the start position handed to ReplicationClient::connect
start_position(lsn) ==
    IF IsSome(lsn)
    THEN LET r == Lsn_parse(lsn[1]) IN IF r.st = "ok" THEN r.v ELSE Lsn_ZERO
    ELSE Lsn_ZERO

\* a reader that reports every decoded event applied, whatever the mode
on_decoded_always_ack(auto_ack, wal_end, pending) ==
    [apply |-> Some(wal_end), pending |-> pending]

\* a reader with the two modes exchanged
on_decoded_inverted(auto_ack, wal_end, pending) ==
    IF ~auto_ack
    THEN [apply |-> Some(wal_end), pending |-> pending]
    ELSE [apply |-> None, pending |-> Some(wal_end)]

\* after a successful decode: the LSN passed to client.update_applied_lsn
\* (None: no call) and the new state.pending_lsn
on_decoded(auto_ack, wal_end, pending) ==
    IF auto_ack
    THEN [apply |-> Some(wal_end), pending |-> pending]
    ELSE [apply |-> None, pending |-> Some(wal_end)]

\* acknowledge: the LSN to acknowledge, from the lsn argument
\* (Option<String>) or the pending LSN
lsn_to_ack(lsn, pending) ==
    IF IsSome(lsn)
    THEN LET lsn_u64 == parse_u64(lsn[1]) IN
         IF lsn_u64.st # "ok" THEN Err("InvalidLsnFormat")
         ELSE [st |-> "ok", v |-> lsn_u64.v]
    ELSE IF IsSome(pending) THEN [st |-> "ok", v |-> pending[1]]
    ELSE Err("NoPendingLsn")

\* ------------------------------------------------------------------------
\* Bounds and inputs
\* ------------------------------------------------------------------------
\* the LSNs of the stream are 1..MaxLsn
MaxLsn == 2

\* successful ReplicationClient::connect calls
MaxConnects == 2

\* the __anext__ futures
Tasks == {"t1", "t2"}

\* the futures of a consumer that awaits each __anext__ before it calls the
\* next, as `async for` does
Sequential == {"t1"}

U16(n) == <<0, n>>

U32(n) == <<0, 0, 0, n>>

\* a one-character C string
CStr(b) == <<b, 0>>

\* Relation rel_id "p"."t", replica identity 'd', one key column "i" int4
PRelation(rel_id) ==
    <<Ascii.R>> \o U32(rel_id) \o CStr(112) \o CStr(116) \o <<100>>
        \o U16(1) \o <<1>> \o CStr(105) \o U32(23) \o <<255, 255, 255, 255>>

\* Insert into rel_id of the one-column tuple ("1")
PInsert(rel_id) ==
    <<Ascii.I>> \o U32(rel_id) \o <<Ascii.N>> \o U16(1) \o <<Ascii.t>>
        \o U32(1) \o <<49>>

\* Update of rel_id: key-only old tuple ("1"), new tuple (unchanged toast)
PUpdate(rel_id) ==
    <<Ascii.U>> \o U32(rel_id) \o <<Ascii.K>> \o U16(1) \o <<Ascii.t>>
        \o U32(1) \o <<49>> \o <<Ascii.N>> \o U16(1) \o <<Ascii.u>>

\* Delete from rel_id of the key-only old tuple ("1")
PDelete(rel_id) ==
    <<Ascii.D>> \o U32(rel_id) \o <<Ascii.K>> \o U16(1) \o <<Ascii.t>>
        \o U32(1) \o <<49>>

\* the XLogData payloads the server sends: a Relation, an Insert, an Update
\* and a Delete for it (protocol violations when they come before it), an
\* unknown tag, and an Insert cut short inside its tuple
Payloads ==
    {PRelation(41), PInsert(41), PUpdate(41), PDelete(41), <<90>>,
     Take(PInsert(41), 8)}

\* decimal text of a number
RECURSIVE ToDecimal(_)
ToDecimal(n) ==
    IF n < 10 THEN <<DigitChars[n + 1]>>
    ELSE Append(ToDecimal(n \div 10), DigitChars[(n % 10) + 1])

\* the lsn arguments of acknowledge(): absent, the decimal text of an LSN,
\* the X/Y text of an LSN
AckArgs ==
    {None} \cup {Some(ToDecimal(n)) : n \in 1..MaxLsn}
        \cup {Some(<<"0", "/", "1">>)}

\* ------------------------------------------------------------------------
\* ReplicationClient::recv: the events a client can yield next, and the
\* client afterwards.  wal_end never goes back within one connection; once
\* the session has ended recv yields Ok(None).
\* ------------------------------------------------------------------------
NoEvent == [kind |-> "none", data |-> <<>>, wal_end |-> 0]

Event(kind) == [NoEvent EXCEPT !.kind = kind]

XLogData(data, wal_end) ==
    [kind |-> "XLogData", data |-> data, wal_end |-> wal_end]

recv_events(c) ==
    IF c.term THEN {Event("EndOfStream")}
    ELSE {Event("KeepAlive"), Event("StoppedAt"), Event("EndOfStream"),
          Event("Error")}
         \cup {XLogData(data, wal_end) :
                  data \in Payloads,
                  wal_end \in {l \in 1..MaxLsn : l >= c.wal}}

recv_client(c, e) ==
    IF e.kind = "XLogData" THEN [c EXCEPT !.wal = e.wal_end]
    ELSE IF e.kind = "KeepAlive" THEN c
    ELSE [c EXCEPT !.term = TRUE]

\* ------------------------------------------------------------------------
\* State
\* ------------------------------------------------------------------------
VARIABLES
    auto_acknowledge,   \* config.auto_acknowledge
    start_lsn,          \* config.start_lsn: Option of the text, as characters
    relations,          \* state.decoder.relations
    client,             \* state.client: Option of an index into clients
    stopped,            \* state.stopped
    pending_lsn,        \* state.pending_lsn
    clients,            \* every ReplicationClient connected so far
    pc,                 \* per task: "idle", "loop", "recv", "got", "ret"
    held,               \* per task: the client taken out of the state, or 0
    ev,                 \* per task: the event recv() returned
    ret,                \* per task: the message about to be returned
    last,               \* history: what the last step did (see Quiet)
    maxObserved,        \* history: highest wal_end of an XLogData decoded
    maxAcked,           \* history: highest LSN acknowledge() has passed on
    decodedRels,        \* history: rel_ids of the Relations decoded
    errSurfaced,        \* history: a replication error was returned
    start_used,         \* history: start_lsn of the last connect, or None
    current_delay,      \* ExponentialBackoff.current_delay, in ms
    attempts,           \* ExponentialBackoff.attempts
    backoff_log,        \* history: the wait/reset calls since new()
    slept,              \* history: how long the last wait slept, in ms
    payload,            \* decoder harness: the payload last given to decode
    decoded,            \* decoder harness: what decode returned for it
    converted           \* decoder harness: what convert_message made of it

vars ==
    <<auto_acknowledge, start_lsn, relations, client, stopped, pending_lsn,
      clients, pc, held, ev, ret, last, maxObserved, maxAcked, decodedRels,
      errSurfaced, start_used, current_delay, attempts, backoff_log, slept,
      payload, decoded, converted>>

reader ==
    <<auto_acknowledge, start_lsn, client, stopped, pending_lsn, clients, pc,
      held, ev, ret, last, maxObserved, maxAcked, errSurfaced, start_used>>

backoff == <<current_delay, attempts, backoff_log, slept>>

harness == <<payload, decoded, converted>>

\* last: the acknowledge() call the last step was (Some([lsn, res]), lsn
\* its argument and res its result), the update_applied_lsn calls the last
\* step made (each [client, lsn, via], via "auto" or "ack"), and what the
\* last step returned from __anext__ when it ended the call: Some("msg"),
\* Some("end") for Ok(None), Some("ConnectionFailed"),
\* Some("ReplicationError"), Some("panic"), Some("cancelled"); event is
\* the kind of the non-data event the last step handled, if it was one
Quiet == [ack |-> None, calls |-> <<>>, returned |-> None, event |-> None]

Called(c, lsn, via) ==
    [Quiet EXCEPT !.calls = <<[client |-> c, lsn |-> lsn, via |-> via]>>]

Returned(what) == [Quiet EXCEPT !.returned = Some(what)]

\* LogicalReplicationReader::new, with start_lsn one of lsns
InitWith(lsns) ==
    /\ auto_acknowledge \in BOOLEAN
    /\ start_lsn \in lsns
    /\ relations = new_relations
    /\ client = None
    /\ stopped = FALSE
    /\ pending_lsn = None
    /\ clients = <<>>
    /\ pc = [t \in Tasks |-> "idle"]
    /\ held = [t \in Tasks |-> 0]
    /\ ev = [t \in Tasks |-> NoEvent]
    /\ ret = [t \in Tasks |-> None]
    /\ last = Quiet
    /\ maxObserved = 0
    /\ maxAcked = 0
    /\ decodedRels = {}
    /\ errSurfaced = FALSE
    /\ start_used = None
    /\ current_delay = new_backoff.current_delay
    /\ attempts = new_backoff.attempts
    /\ backoff_log = <<>>
    /\ slept = 0
    /\ payload = <<>>
    /\ decoded = Err("EmptyMessage")
    /\ converted = None

\* the default of the constructor: start_lsn=None
Init == InitWith({None})

\* state.client = Some(c): a client that is in the cell is overwritten,
\* and so dropped
PutBack(cs, c) ==
    IF IsSome(client) /\ client[1] # c
    THEN [cs EXCEPT ![client[1]] = drop]
    ELSE cs

\* __anext__, the block that initialises the connection (the lock is held
\* across connect)
AnextInit(t) ==
    /\ pc[t] = "idle"
    /\ IF needs_connect(client, stopped)
       THEN \/ /\ Len(clients) < MaxConnects
               /\ clients' = Append(clients, connect)
               /\ client' = Some(Len(clients) + 1)
               /\ start_used' = Some(start_position(start_lsn))
               /\ pc' = [pc EXCEPT ![t] = "loop"]
               /\ last' = Quiet
            \/ /\ last' = Returned("ConnectionFailed")
               /\ UNCHANGED <<clients, client, pc, start_used>>
       ELSE /\ pc' = [pc EXCEPT ![t] = "loop"]
            /\ last' = Quiet
            /\ UNCHANGED <<clients, client, start_used>>
    /\ UNCHANGED <<harness, backoff, start_lsn>>
    /\ UNCHANGED <<auto_acknowledge, relations, stopped, pending_lsn, held,
                   ev, ret, maxObserved, maxAcked, decodedRels, errSurfaced>>

\* __anext__, the head of the loop: take the client out of the state
AnextTake(t) ==
    /\ pc[t] = "loop"
    /\ IF stopped \/ client = None
       THEN /\ pc' = [pc EXCEPT ![t] = "idle"]
            /\ last' = Returned("end")
            /\ UNCHANGED <<client, held>>
       ELSE /\ held' = [held EXCEPT ![t] = client[1]]
            /\ client' = None
            /\ pc' = [pc EXCEPT ![t] = "recv"]
            /\ last' = Quiet
    /\ UNCHANGED <<harness, backoff, start_lsn, start_used>>
    /\ UNCHANGED <<auto_acknowledge, relations, stopped, pending_lsn, clients,
                   ev, ret, maxObserved, maxAcked, decodedRels, errSurfaced>>

\* __anext__: client.recv().await completes, without the lock
AnextRecv(t) ==
    /\ pc[t] = "recv"
    /\ \E e \in recv_events(clients[held[t]]) :
        /\ ev' = [ev EXCEPT ![t] = e]
        /\ clients' = [clients EXCEPT ![held[t]] = recv_client(@, e)]
    /\ pc' = [pc EXCEPT ![t] = "got"]
    /\ last' = Quiet
    /\ UNCHANGED <<harness, backoff, start_lsn, start_used>>
    /\ UNCHANGED <<auto_acknowledge, relations, client, stopped, pending_lsn,
                   held, ret, maxObserved, maxAcked, decodedRels, errSurfaced>>

\* __anext__: XLogData { data, wal_end }.  The payload is decoded under
\* the lock; the client is put back on Ok and on Err; a panic of the
\* decoder unwinds the future, and the client it holds is dropped.
AnextXLogData(t) ==
    /\ pc[t] = "got"
    /\ ev[t].kind = "XLogData"
    /\ \E d \in {decode(relations, ev[t].data)} :
       LET c == held[t]
           wal_end == ev[t].wal_end
       IN
       IF d.st = "ok"
       THEN \E eff \in {on_decoded(auto_acknowledge, wal_end, pending_lsn)},
               repl_msg \in {convert_message(d.msg, d.relations, wal_end)} :
            /\ relations' = d.relations
            /\ decodedRels' = IF d.msg.type = "Relation"
                              THEN decodedRels \cup {d.msg.rel_id}
                              ELSE decodedRels
            /\ pending_lsn' = eff.pending
            /\ maxObserved' = Max(maxObserved, wal_end)
            /\ IF IsSome(eff.apply)
               THEN /\ clients' = PutBack(
                           [clients EXCEPT ![c] =
                               update_applied_lsn(@, eff.apply[1])], c)
                    /\ last' = Called(c, eff.apply[1], "auto")
               ELSE /\ clients' = PutBack(clients, c)
                    /\ last' = Quiet
            /\ client' = Some(c)
            /\ IF IsSome(repl_msg)
               THEN /\ ret' = [ret EXCEPT ![t] = repl_msg]
                    /\ pc' = [pc EXCEPT ![t] = "ret"]
               ELSE /\ ret' = ret
                    /\ pc' = [pc EXCEPT ![t] = "loop"]
       ELSE IF d.st = "err"
       THEN /\ clients' = PutBack(clients, c)
            /\ client' = Some(c)
            /\ pc' = [pc EXCEPT ![t] = "loop"]
            /\ last' = Quiet
            /\ UNCHANGED <<relations, decodedRels, pending_lsn, ret,
                           maxObserved>>
       ELSE /\ clients' = [clients EXCEPT ![c] = drop]
            /\ pc' = [pc EXCEPT ![t] = "idle"]
            /\ last' = Returned("panic")
            /\ UNCHANGED <<relations, decodedRels, pending_lsn, ret, client,
                           maxObserved>>
    /\ held' = [held EXCEPT ![t] = 0]
    /\ ev' = [ev EXCEPT ![t] = NoEvent]
    /\ UNCHANGED <<harness, backoff, start_lsn, start_used>>
    /\ UNCHANGED <<auto_acknowledge, stopped, maxAcked, errSurfaced>>

\* __anext__: another event (KeepAlive, StoppedAt): the client is put
\* back; StoppedAt returns None
AnextOtherEvent(t) ==
    /\ pc[t] = "got"
    /\ ev[t].kind \in {"KeepAlive", "StoppedAt"}
    /\ clients' = PutBack(clients, held[t])
    /\ client' = Some(held[t])
    /\ pc' = [pc EXCEPT ![t] =
                 IF ends_stream(ev[t].kind) THEN "idle" ELSE "loop"]
    /\ held' = [held EXCEPT ![t] = 0]
    /\ ev' = [ev EXCEPT ![t] = NoEvent]
    /\ last' = [IF ends_stream(ev[t].kind) THEN Returned("end") ELSE Quiet
                    EXCEPT !.event = Some(ev[t].kind)]
    /\ UNCHANGED <<harness, backoff, start_lsn, start_used>>
    /\ UNCHANGED <<auto_acknowledge, relations, stopped, pending_lsn, ret,
                   maxObserved, maxAcked, decodedRels, errSurfaced>>

\* __anext__: Ok(None), the end of the stream: put back, return None
AnextEndOfStream(t) ==
    /\ pc[t] = "got"
    /\ ev[t].kind = "EndOfStream"
    /\ clients' = PutBack(clients, held[t])
    /\ client' = Some(held[t])
    /\ pc' = [pc EXCEPT ![t] = "idle"]
    /\ held' = [held EXCEPT ![t] = 0]
    /\ ev' = [ev EXCEPT ![t] = NoEvent]
    /\ last' = Returned("end")
    /\ UNCHANGED <<harness, backoff, start_lsn, start_used>>
    /\ UNCHANGED <<auto_acknowledge, relations, stopped, pending_lsn, ret,
                   maxObserved, maxAcked, decodedRels, errSurfaced>>

\* __anext__: Err(e): put back, return the replication error
AnextRecvError(t) ==
    /\ pc[t] = "got"
    /\ ev[t].kind = "Error"
    /\ clients' = PutBack(clients, held[t])
    /\ client' = Some(held[t])
    /\ pc' = [pc EXCEPT ![t] = "idle"]
    /\ held' = [held EXCEPT ![t] = 0]
    /\ ev' = [ev EXCEPT ![t] = NoEvent]
    /\ errSurfaced' = TRUE
    /\ last' = Returned("ReplicationError")
    /\ UNCHANGED <<harness, backoff, start_lsn, start_used>>
    /\ UNCHANGED <<auto_acknowledge, relations, stopped, pending_lsn, ret,
                   maxObserved, maxAcked, decodedRels>>

\* __anext__ cancelled by its caller (a receive timeout) while suspended in
\* client.recv().await: the future is dropped, and with it the client it
\* took out of the cell, which stays empty
AnextCancel(t) ==
    /\ pc[t] = "recv"
    /\ clients' = [clients EXCEPT ![held[t]] = drop]
    /\ pc' = [pc EXCEPT ![t] = "idle"]
    /\ held' = [held EXCEPT ![t] = 0]
    /\ last' = Returned("cancelled")
    /\ UNCHANGED <<harness, backoff, start_lsn, start_used>>
    /\ UNCHANGED <<auto_acknowledge, relations, client, stopped, pending_lsn,
                   ev, ret, maxObserved, maxAcked, decodedRels, errSurfaced>>

\* __anext__: the future resolves with the message
AnextReturn(t) ==
    /\ pc[t] = "ret"
    /\ ret' = [ret EXCEPT ![t] = None]
    /\ pc' = [pc EXCEPT ![t] = "idle"]
    /\ last' = Returned("msg")
    /\ UNCHANGED <<harness, backoff, start_lsn, start_used>>
    /\ UNCHANGED <<auto_acknowledge, relations, client, stopped, pending_lsn,
                   clients, held, ev, maxObserved, maxAcked, decodedRels,
                   errSurfaced>>

\* stop()
Stop ==
    /\ stopped' = TRUE
    /\ client' = None
    /\ clients' = IF IsSome(client)
                  THEN [clients EXCEPT ![client[1]] = drop]
                  ELSE clients
    /\ last' = Quiet
    /\ UNCHANGED <<harness, backoff, start_lsn, start_used>>
    /\ UNCHANGED <<auto_acknowledge, relations, pending_lsn, pc, held, ev,
                   ret, maxObserved, maxAcked, decodedRels, errSurfaced>>

\* acknowledge(lsn).  An early return after the take leaves the cell empty:
\* the client taken out of it is dropped with the future.
Acknowledge(lsn) ==
    /\ IF client = None
       THEN /\ last' = [Quiet EXCEPT !.ack =
                           Some([lsn |-> lsn, res |-> "ClientNotAvailable"])]
            /\ UNCHANGED <<client, clients, pending_lsn, maxAcked>>
       ELSE \E to_ack \in {lsn_to_ack(lsn, pending_lsn)} :
            LET c == client[1] IN
            IF to_ack.st # "ok"
            THEN /\ client' = None
                 /\ clients' = [clients EXCEPT ![c] = drop]
                 /\ last' = [Quiet EXCEPT !.ack =
                                Some([lsn |-> lsn, res |-> to_ack.kind])]
                 /\ UNCHANGED <<pending_lsn, maxAcked>>
            ELSE /\ clients' = [clients EXCEPT ![c] =
                                   update_applied_lsn(@, to_ack.v)]
                 /\ pending_lsn' = None
                 /\ client' = Some(c)
                 /\ maxAcked' = Max(maxAcked, to_ack.v)
                 /\ last' = [Called(c, to_ack.v, "ack") EXCEPT !.ack =
                                Some([lsn |-> lsn, res |-> "ok"])]
    /\ UNCHANGED <<harness, backoff, start_lsn, start_used>>
    /\ UNCHANGED <<auto_acknowledge, relations, stopped, pc, held, ev, ret,
                   maxObserved, decodedRels, errSurfaced>>

\* ------------------------------------------------------------------------
\* The decoder on its own: PgOutputDecoder::decode applied to a stream of
\* payloads, well-formed and not.
\* ------------------------------------------------------------------------
\* columns of a generated tuple
MaxCols == 2

\* a column as the server writes it: its tag byte and, for 't', its bytes
Columns ==
    {[tag |-> Ascii.n, bytes |-> <<>>], [tag |-> Ascii.u, bytes |-> <<>>],
     [tag |-> Ascii.t, bytes |-> <<>>], [tag |-> Ascii.t, bytes |-> <<49>>],
     [tag |-> 120, bytes |-> <<>>]}

Tuples == UNION {[1..n -> Columns] : n \in 0..MaxCols}

EncodeColumn(col) ==
    IF col.tag = Ascii.t
    THEN <<col.tag>> \o U32(Len(col.bytes)) \o col.bytes
    ELSE <<col.tag>>

RECURSIVE EncodeColumns(_)
EncodeColumns(cols) ==
    IF Len(cols) = 0 THEN <<>>
    ELSE EncodeColumn(cols[1]) \o EncodeColumns(Drop(cols, 1))

EncodeTuple(cols) == U16(Len(cols)) \o EncodeColumns(cols)

EncodeInsert(rel_id, cols) ==
    <<Ascii.I>> \o U32(rel_id) \o <<Ascii.N>> \o EncodeTuple(cols)

U64(n) == <<0, 0, 0, 0>> \o U32(n)

\* Relation rel_id "p".name, otherwise as PRelation
PRelationNamed(rel_id, name) ==
    <<Ascii.R>> \o U32(rel_id) \o CStr(112) \o CStr(name) \o <<100>>
        \o U16(1) \o <<1>> \o CStr(105) \o U32(23) \o <<255, 255, 255, 255>>

\* one well-formed message of each kind that is neither Relation nor a
\* tuple event: Begin, Commit, Truncate of 41, Type, Origin, Message
OtherKinds ==
    {<<Ascii.B>> \o U64(1) \o U64(2) \o U32(7),
     <<Ascii.C, 0>> \o U64(1) \o U64(1) \o U64(2),
     <<Ascii.T>> \o U32(1) \o <<0>> \o U32(41),
     <<Ascii.Y>> \o U32(23) \o CStr(112) \o CStr(116),
     <<Ascii.O>> \o U64(1) \o CStr(111),
     <<Ascii.M, 1>> \o U64(1) \o CStr(112) \o U32(1) \o <<49>>}

\* Relation payloads cut short: inside the name, before the column count
CutRelations == {Take(PRelation(42), 7), Take(PRelation(42), 10)}

\* Begin: final_lsn 1, timestamp 2, xid 7
PBegin == <<Ascii.B>> \o U64(1) \o U64(2) \o U32(7)

\* LogicalMessage: transactional, lsn 1, prefix "p", content "1"
PLogicalMessage ==
    <<Ascii.M, 1>> \o U64(1) \o CStr(112) \o U32(1) \o <<49>>

\* payloads that end before their layout is complete: inside the u64 of a
\* Begin, inside the column count of a tuple, a 't' column and a
\* LogicalMessage content with fewer bytes than their declared length
CutFrames ==
    {Take(PBegin, 5), Take(PInsert(41), 7), Take(PInsert(41), 13),
     Take(PLogicalMessage, Len(PLogicalMessage) - 1)}

\* a few well-formed tuples: none, ("1"), (NULL, "")
SmallTuples ==
    {<<>>, <<[tag |-> Ascii.t, bytes |-> <<49>>]>>,
     <<[tag |-> Ascii.n, bytes |-> <<>>], [tag |-> Ascii.t, bytes |-> <<>>]>>}

\* the sentinel bytes tried after rel_id: 'N', 'O', 'K' and 'X'
Sentinels == {Ascii.N, Ascii.O, Ascii.K, 88}

\* Update with an old tuple: sentinel, old tuple, separator byte, new tuple
EncodeUpdateOld(rel_id, sentinel, old, sep, new) ==
    <<Ascii.U>> \o U32(rel_id) \o <<sentinel>> \o EncodeTuple(old)
        \o <<sep>> \o EncodeTuple(new)

\* a tuple event with one tuple: tag, rel_id, sentinel, tuple
EncodeTupleEvent(tag, rel_id, sentinel, cols) ==
    <<tag>> \o U32(rel_id) \o <<sentinel>> \o EncodeTuple(cols)

\* Updates with an old tuple after 'O' or 'K' and the separator 'N' or 'X'
UpdatesWithOld ==
    {EncodeUpdateOld(41, s, old, sep, new) :
        s \in {Ascii.O, Ascii.K}, old \in SmallTuples,
        sep \in {Ascii.N, 88}, new \in SmallTuples}

\* Insert, Update and Delete with one tuple after each sentinel
TupleEvents ==
    {EncodeTupleEvent(tag, 41, s, cols) :
        tag \in {Ascii.I, Ascii.U, Ascii.D}, s \in Sentinels,
        cols \in SmallTuples}

\* NUL-free strings: "", "p", "pq", U+00E9 in two bytes, and two that are
\* not UTF-8 (0xFF, and a lead byte without its continuation)
ValidStrings == {<<>>, <<112>>, <<112, 113>>, <<195, 169>>}

CStrings == ValidStrings \cup {<<255>>, <<195>>}

\* Type 23 with namespace a and name b
EncodeType(a, b) ==
    <<Ascii.Y>> \o U32(23) \o a \o <<0>> \o b \o <<0>>

\* the same without the NUL that ends the name
EncodeTypeCut(a, b) == <<Ascii.Y>> \o U32(23) \o a \o <<0>> \o b

TypeInputs ==
    {EncodeType(a, b) : a \in CStrings, b \in CStrings}
        \cup {EncodeTypeCut(a, b) : a \in CStrings, b \in CStrings}

DecodeInputs ==
    Payloads \cup {PRelation(42), <<>>}
        \cup {EncodeInsert(41, cols) : cols \in Tuples}
        \cup {PRelationNamed(41, 117)} \cup OtherKinds \cup CutRelations
        \cup CutFrames \cup UpdatesWithOld \cup TupleEvents \cup TypeInputs

Decode ==
    \E data \in DecodeInputs, wal_end \in 1..MaxLsn :
        \E d \in {decode(relations, data)} :
        /\ payload' = data
        /\ decoded' = IF d.st = "ok" THEN Ok(d.msg) ELSE d
        /\ converted' = IF d.st = "ok"
                        THEN convert_message(d.msg, d.relations, wal_end)
                        ELSE None
        /\ relations' = IF d.st = "ok" THEN d.relations ELSE relations
        /\ decodedRels' = IF d.st = "ok" /\ d.msg.type = "Relation"
                          THEN decodedRels \cup {d.msg.rel_id}
                          ELSE decodedRels
        /\ UNCHANGED <<reader, backoff>>

InitDecode == Init /\ auto_acknowledge = TRUE

NextDecode == Decode

SpecDecode == InitDecode /\ [][NextDecode]_vars

Next ==
    \/ \E t \in Sequential : AnextInit(t)
    \/ \E t \in Sequential : AnextTake(t)
    \/ \E t \in Sequential : AnextRecv(t)
    \/ \E t \in Sequential : AnextXLogData(t)
    \/ \E t \in Sequential : AnextOtherEvent(t)
    \/ \E t \in Sequential : AnextEndOfStream(t)
    \/ \E t \in Sequential : AnextRecvError(t)
    \/ \E t \in Sequential : AnextReturn(t)
    \/ \E t \in Sequential : AnextCancel(t)
    \/ \E lsn \in AckArgs : Acknowledge(lsn)
    \/ Stop

Spec == Init /\ [][Next]_vars

\* The reader with __anext__ calls that overlap in time: a second call is
\* made while the first is still in flight (the futures run as separate
\* tokio tasks and share the state cell); no acknowledge() is made.
NextOverlap ==
    \/ \E t \in Tasks : AnextInit(t)
    \/ \E t \in Tasks : AnextTake(t)
    \/ \E t \in Tasks : AnextRecv(t)
    \/ \E t \in Tasks : AnextXLogData(t)
    \/ \E t \in Tasks : AnextOtherEvent(t)
    \/ \E t \in Tasks : AnextEndOfStream(t)
    \/ \E t \in Tasks : AnextRecvError(t)
    \/ \E t \in Tasks : AnextReturn(t)
    \/ \E t \in Tasks : AnextCancel(t)
    \/ Stop

SpecOverlap == Init /\ [][NextOverlap]_vars

\* ------------------------------------------------------------------------
\* the reader constructed with a start_lsn text
\* ------------------------------------------------------------------------

\* None, the text 0/1A, and a text that is no LSN
StartLsns == {None, Some(<<"0", "/", "1", "A">>), Some(<<"z">>)}

InitStart == InitWith(StartLsns)

SpecStart == InitStart /\ [][Next]_vars

\* ------------------------------------------------------------------------
\* ExponentialBackoff driven by a caller: any order of wait and reset
\* ------------------------------------------------------------------------

MaxCalls == 12

BackoffWait ==
    /\ Len(backoff_log) < MaxCalls
    /\ \E w \in {wait([current_delay |-> current_delay,
                       attempts |-> attempts])} :
           /\ slept' = w.slept
           /\ attempts' = w.attempts
           /\ current_delay' = w.current_delay
    /\ backoff_log' = Append(backoff_log, "wait")
    /\ UNCHANGED <<reader, relations, decodedRels, harness>>

BackoffReset ==
    /\ Len(backoff_log) < MaxCalls
    /\ \E r \in {reset([current_delay |-> current_delay,
                        attempts |-> attempts])} :
           /\ attempts' = r.attempts
           /\ current_delay' = r.current_delay
    /\ backoff_log' = Append(backoff_log, "reset")
    /\ UNCHANGED <<reader, relations, decodedRels, harness, slept>>

NextBackoff == BackoffWait \/ BackoffReset

SpecBackoff == Init /\ [][NextBackoff]_vars


\* ------------------------------------------------------------------------
\* Properties
\* ------------------------------------------------------------------------
\* the step ends task t's handling of the event it received
Handled(t) == pc[t] = "got" /\ pc'[t] # "got"

\* the event task t received is XLogData and its payload decodes
DecodesOk(t) ==
    /\ ev[t].kind = "XLogData"
    /\ decode(relations, ev[t].data).st = "ok"

TupleTypes == {"Insert", "Update", "Delete"}

\* C1: when update_applied_lsn(L) is called, either the consumer asked for
\* it through acknowledge(), or no row message with wal_end <= L is still
\* waiting to be returned from __anext__.
C1_AppliedOnlyAfterReturned ==
    \A i \in 1..Len(last.calls) :
        \/ last.calls[i].via = "ack"
        \/ \A t \in Tasks :
               IsSome(ret[t]) => ret[t][1].source.lsn > last.calls[i].lsn

\* C2: the applied LSN of a client never decreases, and acknowledge() with
\* an LSN below the client's applied LSN succeeds and leaves it where it was.
C2_AppliedMonotone ==
    [][/\ \A c \in 1..Len(clients) :
              ~clients'[c].dropped => clients'[c].applied >= clients[c].applied
       /\ \A lsn \in AckArgs :
              (/\ last'.ack # None
               /\ last'.ack[1].lsn = lsn
               /\ IsSome(client)
               /\ lsn_to_ack(lsn, pending_lsn).st = "ok"
               /\ lsn_to_ack(lsn, pending_lsn).v < clients[client[1]].applied)
              => /\ last'.ack[1].res = "ok"
                 /\ clients'[client[1]].applied = clients[client[1]].applied
      ]_vars

\* C2 witness: acknowledge() of an LSN below the applied LSN has succeeded
C2_LowerAckSucceeded ==
    /\ IsSome(last.ack)
    /\ last.ack[1].res = "ok"
    /\ IsSome(client)
    /\ last.calls # <<>>
    /\ last.calls[1].lsn < clients[client[1]].applied

\* C3: two columns of a tuple that the server wrote with different tags
\* ('n', 'u', 't') decode to different column values.
C3_TagsDistinguished ==
    \A cols \in Tuples :
        (payload = EncodeInsert(41, cols) /\ decoded.st = "ok")
        => \A i, j \in 1..Len(cols) :
               cols[i].tag # cols[j].tag
               => decoded.msg.tuple[i] # decoded.msg.tuple[j]

\* C4: handling an Insert, Update or Delete whose relation id is not in the
\* cache ends the __anext__ call with an error: no message, no skip.
C4_UnknownRelationIsError ==
    [][\A t \in Tasks :
           (/\ Handled(t)
            /\ DecodesOk(t)
            /\ decode(relations, ev[t].data).msg.type \in TupleTypes
            /\ decode(relations, ev[t].data).msg.rel_id \notin DOMAIN relations)
           => /\ pc'[t] = "idle"
              /\ last'.returned = Some("UnknownRelation")
      ]_vars

\* C5: a row message built for the consumer names a relation for which a
\* Relation message was decoded before, and that is in the cache.
C5_RelationBeforeTuple ==
    \A t \in Tasks :
        IsSome(ret[t]) => /\ ret[t][1].rel_id \in decodedRels
                          /\ ret[t][1].rel_id \in DOMAIN relations

\* C5 witness: a row message has been built and waits to be returned
C5_RowMessageBuilt ==
    \E t \in Tasks : IsSome(ret[t]) /\ pc[t] = "ret"

\* C6: when the payload of an XLogData event fails to decode, the
\* __anext__ call ends with that error: the reader does not go on to the
\* next event.
C6_DecodeErrorSurfaced ==
    [][\A t \in Tasks :
           (/\ Handled(t)
            /\ ev[t].kind = "XLogData"
            /\ decode(relations, ev[t].data).st = "err")
           => /\ pc'[t] = "idle"
              /\ last'.returned = Some(decode(relations, ev[t].data).kind)
      ]_vars

\* C7: once __anext__ has returned a replication error from recv(), no
\* __anext__ goes to recv() again and no message is built for the consumer.
C7_TerminatedAfterError ==
    [][errSurfaced
       => \A t \in Tasks :
              /\ pc[t] # "recv" => pc'[t] # "recv"
              /\ ret[t] = None => ret'[t] = None
      ]_vars

\* C8: with auto-acknowledge, handling an XLogData event that decodes makes
\* exactly one call, update_applied_lsn(wal_end) of that event on the client
\* that received it, within the handling and so before the next recv();
\* handling any other event, and every other step of __anext__, makes none.
C8_AutoAckExactlyOnce ==
    [][auto_acknowledge
       => /\ \A t \in Tasks :
                 Handled(t)
                 => IF DecodesOk(t)
                    THEN /\ last'.calls = <<[client |-> held[t],
                                             lsn |-> ev[t].wal_end,
                                             via |-> "auto"]>>
                         /\ clients'[held[t]].applied >= ev[t].wal_end
                         /\ pc'[t] # "recv"
                    ELSE last'.calls = <<>>
          /\ (last'.ack = None /\ ~(\E t \in Tasks : Handled(t)))
             => last'.calls = <<>>
      ]_vars

\* C8 witness: auto-acknowledge, and the last step reported an event's
\* wal_end applied
C8_AutoAcked ==
    /\ auto_acknowledge
    /\ last.calls # <<>>
    /\ last.calls[1].via = "auto"

\* C9: with manual acknowledge, no step other than acknowledge() calls
\* update_applied_lsn or changes a client's applied LSN.
C9_ManualNoAutoAck ==
    [][(~auto_acknowledge /\ last'.ack = None)
       => /\ last'.calls = <<>>
          /\ \A c \in 1..Len(clients) :
                 ~clients'[c].dropped
                 => clients'[c].applied = clients[c].applied
      ]_vars

\* C9 witness: manual acknowledge, and __anext__ has handled an event that
\* decoded: its wal_end is pending and nothing was reported applied
C9_ManualPending ==
    /\ ~auto_acknowledge
    /\ IsSome(pending_lsn)
    /\ last.calls = <<>>
    /\ \E t \in Tasks : pc[t] \in {"ret", "loop"}

\* C10: with manual acknowledge, pending_lsn is the highest wal_end of the
\* events decoded so far that is not yet acknowledged, and it is empty only
\* when every decoded event is covered by an acknowledgement.
C10_PendingIsHighestUnacked ==
    ~auto_acknowledge
    => IF maxObserved > maxAcked
       THEN pending_lsn = Some(maxObserved)
       ELSE pending_lsn = None


\* C11: acknowledge() with no LSN argument and no pending LSN, the client
\* being in its cell, succeeds, calls update_applied_lsn not at all and
\* leaves the reader state as it was.
C11_AckNothingPendingIsNoOp ==
    [][(/\ last'.ack # None
        /\ last'.ack[1].lsn = None
        /\ pending_lsn = None
        /\ IsSome(client))
       => /\ last'.ack[1].res = "ok"
          /\ last'.calls = <<>>
          /\ UNCHANGED <<client, clients, pending_lsn, stopped>>
      ]_vars

\* C12: acknowledge(lsn) with a well-formed LSN, called while an __anext__
\* is suspended in recv(), succeeds and passes its LSN to
\* update_applied_lsn of the client that __anext__ is receiving on.
C12_AckDuringRecv ==
    [][\A t \in Tasks :
           (/\ pc[t] = "recv"
            /\ last'.ack # None
            /\ lsn_to_ack(last'.ack[1].lsn, pending_lsn).st = "ok")
           => /\ last'.ack[1].res = "ok"
              /\ last'.calls =
                     <<[client |-> held[t],
                        lsn |-> lsn_to_ack(last'.ack[1].lsn, pending_lsn).v,
                        via |-> "ack"]>>
      ]_vars

\* C13: once stop() has run, no row message is built for the consumer and
\* none is returned, also not by an __anext__ that was suspended in recv()
\* when stop() ran.
C13_NoDataAfterStop ==
    [][stopped
       => /\ \A t \in Tasks : ret[t] = None => ret'[t] = None
          /\ (\A t \in Tasks : ret[t] = None)
             => last'.returned # Some("msg")
      ]_vars

\* C14: cancelling an __anext__ that is suspended in recv() leaves the
\* reader with the same client in its cell, still connected, and opens no
\* new connection.
C14_CancelKeepsSession ==
    [][\A t \in Tasks :
           (pc[t] = "recv" /\ last'.returned = Some("cancelled"))
           => /\ client' = Some(held[t])
              /\ ~clients'[held[t]].dropped
              /\ Len(clients') = Len(clients)
      ]_vars

\* C15: once a connection has been established, no step of the reader
\* connects again.
C15_NoReconnect ==
    [][Len(clients) >= 1 => Len(clients') = Len(clients)]_vars

\* C16: at most one replication client of the reader is connected at any
\* time, also when two __anext__ calls overlap.
C16_AtMostOneClient ==
    Cardinality({c \in 1..Len(clients) : ~clients[c].dropped}) <= 1

\* C17: with __anext__ calls made one after the other, messages reach the
\* consumer in the order recv() produced their events, none twice: an event
\* is received only when no earlier event or message is still in flight, a
\* message is built only by the handling of the event just received, from
\* that event, which is thereby consumed, and a message is returned only
\* by the call that built it, once.
C17_ServerOrder ==
    [][/\ \A t \in Tasks :
              /\ (pc[t] = "recv" /\ pc'[t] = "got")
                 => /\ ev[t] = NoEvent
                    /\ \A u \in Tasks : ret[u] = None /\ ev[u] = NoEvent
              /\ (IsSome(ret'[t]) /\ ret'[t] # ret[t])
                 => /\ Handled(t)
                    /\ DecodesOk(t)
                    /\ ret[t] = None
                    /\ ret'[t] = convert_message(
                                     decode(relations, ev[t].data).msg,
                                     relations', ev[t].wal_end)
                    /\ ret'[t][1].source.lsn = ev[t].wal_end
              /\ Handled(t) => ev'[t] = NoEvent
              /\ (pc[t] = "ret" /\ pc'[t] # "ret")
                 => /\ IsSome(ret[t])
                    /\ ret'[t] = None
                    /\ last'.returned = Some("msg")
       /\ last'.returned = Some("msg")
          => \E t \in Tasks : pc[t] = "ret" /\ pc'[t] = "idle"
      ]_vars

\* C17 witness: a message has been returned to the consumer and nothing is
\* in flight
C17_MessageReturned ==
    /\ last.returned = Some("msg")
    /\ \A t \in Tasks : ret[t] = None /\ ev[t] = NoEvent

\* C18: the applied LSN of a connected client never exceeds the highest
\* wal_end that client has received.
C18_AppliedWithinReceived ==
    \A c \in 1..Len(clients) :
        ~clients[c].dropped => clients[c].applied <= clients[c].wal

\* C19: a decode that yields a Relation message for rel_id r leaves
\* get_relation(r) returning that message, whether r was cached before or
\* not, and leaves the entries of all other rel_ids as they were.
C19_RelationCached ==
    [][(decoded'.st = "ok" /\ decoded'.msg.type = "Relation")
       => /\ get_relation(relations', decoded'.msg.rel_id)
                 = Some(decoded'.msg)
          /\ DOMAIN relations'
                 = DOMAIN relations \cup {decoded'.msg.rel_id}
          /\ \A r \in DOMAIN relations :
                 r # decoded'.msg.rel_id
                 => get_relation(relations', r) = get_relation(relations, r)
      ]_vars

\* C19 witness: the Relation "p"."u" for 41 has been decoded, 41 then maps
\* to it, and another relation is cached beside it
C19_RelationOverwritten ==
    /\ payload = PRelationNamed(41, 117)
    /\ decoded.st = "ok"
    /\ get_relation(relations, 41) = Some(decoded.msg)
    /\ relations[41].name = <<117>>
    /\ 42 \in DOMAIN relations

\* C20: a decode that yields anything but a Relation message (another
\* kind, an error, a panic part-way through a Relation) leaves the cache as
\* it was, and no decode removes an entry.
C20_CacheOnlyByRelation ==
    [][/\ (decoded'.st # "ok" \/ decoded'.msg.type # "Relation")
          => relations' = relations
       /\ \A r \in DOMAIN relations : r \in DOMAIN relations'
      ]_vars

\* C20 witness: a Relation payload for 42 failed part-way with 41 cached:
\* 41 is still cached and 42 is not
C20_CutRelationLeftNoEntry ==
    /\ payload \in CutRelations
    /\ decoded.st # "ok"
    /\ 41 \in DOMAIN relations
    /\ 42 \notin DOMAIN relations

\* the message kind each tag byte stands for
KindOfTag ==
    (Ascii.B :> "Begin") @@ (Ascii.C :> "Commit") @@ (Ascii.R :> "Relation")
        @@ (Ascii.I :> "Insert") @@ (Ascii.U :> "Update")
        @@ (Ascii.D :> "Delete") @@ (Ascii.T :> "Truncate")
        @@ (Ascii.Y :> "Type") @@ (Ascii.O :> "Origin")
        @@ (Ascii.M :> "Message")

\* C21: a decode that yields a message was given a payload whose first
\* byte is one of the ten tags, and the message is of that tag's kind; an
\* empty payload and a payload with any other first byte yield an error.
C21_DispatchOnTag ==
    /\ decoded.st = "ok"
       => /\ Len(payload) >= 1
          /\ payload[1] \in DOMAIN KindOfTag
          /\ decoded.msg.type = KindOfTag[payload[1]]
    /\ (Len(payload) = 0 \/ payload[1] \notin DOMAIN KindOfTag)
       => decoded.st = "err"

\* C21 witness: a LogicalMessage has been decoded from an 'M' payload
C21_MessageDecoded ==
    /\ decoded.st = "ok"
    /\ payload[1] = Ascii.M
    /\ decoded.msg.type = "Message"

\* C22: a payload that ends before its layout is complete makes decode
\* return an error (it does not panic).
C22_TruncatedIsError ==
    payload \in CutFrames => decoded.st = "err"

\* the column values the server wrote: the bytes of a 't' column, nothing
\* for 'n' and 'u'
Values(cols) ==
    [i \in 1..Len(cols) |->
        IF cols[i].tag = Ascii.t THEN Some(cols[i].bytes) ELSE None]

\* C23: a decoded Update has an old tuple exactly when the sentinel after
\* rel_id is 'O' or 'K'; after 'N' the tuple that follows is its new tuple,
\* and after 'O' or 'K' the two tuples are its old and its new tuple.
C23_UpdateOldTuple ==
    /\ (decoded.st = "ok" /\ decoded.msg.type = "Update")
       => (IsSome(decoded.msg.old_tuple)
              <=> payload[6] \in {Ascii.O, Ascii.K})
    /\ \A new \in SmallTuples :
           payload = EncodeTupleEvent(Ascii.U, 41, Ascii.N, new)
           => /\ decoded.st = "ok"
              /\ decoded.msg.type = "Update"
              /\ decoded.msg.old_tuple = None
              /\ decoded.msg.new_tuple = Values(new)
    /\ \A s \in {Ascii.O, Ascii.K}, old, new \in SmallTuples :
           payload = EncodeUpdateOld(41, s, old, Ascii.N, new)
           => /\ decoded.st = "ok"
              /\ decoded.msg.type = "Update"
              /\ decoded.msg.old_tuple = Some(Values(old))
              /\ decoded.msg.new_tuple = Values(new)

\* C23 witness: an Update with the old tuple ("1") after 'O' and the new
\* tuple (NULL, "") has been decoded
C23_UpdateWithOldDecoded ==
    /\ Len(payload) >= 6
    /\ payload[1] = Ascii.U
    /\ payload[6] = Ascii.O
    /\ decoded.st = "ok"
    /\ decoded.msg.old_tuple = Some(<<Some(<<49>>)>>)
    /\ decoded.msg.new_tuple = <<None, Some(<<>>)>>

\* C24: an Update payload with an old tuple and a byte other than 'N'
\* between the old and the new tuple does not decode into an Update.
C24_UpdateSeparatorChecked ==
    \A s \in {Ascii.O, Ascii.K}, old, new \in SmallTuples :
        payload = EncodeUpdateOld(41, s, old, 88, new)
        => ~(decoded.st = "ok" /\ decoded.msg.type = "Update")

\* a tuple event whose sentinel its kind does not accept
BadSentinel(p) ==
    /\ Len(p) >= 6
    /\ \/ p[1] = Ascii.I /\ p[6] # Ascii.N
       \/ p[1] = Ascii.D /\ p[6] \notin {Ascii.O, Ascii.K}
       \/ p[1] = Ascii.U /\ p[6] \notin {Ascii.O, Ascii.K, Ascii.N}

\* C25: decoding an Insert whose sentinel is not 'N', a Delete whose
\* sentinel is not 'O' or 'K', or an Update whose sentinel is not 'O', 'K'
\* or 'N' returns an error and leaves the relation cache as it was.
C25_SentinelValidated ==
    [][BadSentinel(payload')
       => /\ decoded'.st = "err"
          /\ decoded'.kind \in {"ExpectedNewTuple", "ExpectedOldTuple",
                                "UnexpectedTupleType"}
          /\ relations' = relations
      ]_vars

\* C25 witness: a Delete with sentinel 'N' was refused with a relation
\* cached
C25_DeleteSentinelRefused ==
    /\ Len(payload) >= 6
    /\ payload[1] = Ascii.D
    /\ payload[6] = Ascii.N
    /\ decoded = Err("ExpectedOldTuple")
    /\ 41 \in DOMAIN relations

ColumnTags == {Ascii.n, Ascii.u, Ascii.t}

\* C26: an Insert whose tuple has a column with a tag other than 'n', 'u'
\* or 't' decodes to an error, whatever columns precede it.
C26_BadColumnTagIsError ==
    \A cols \in Tuples :
        (/\ payload = EncodeInsert(41, cols)
         /\ \E i \in 1..Len(cols) : cols[i].tag \notin ColumnTags)
        => decoded = Err("UnknownTupleValueType")

\* C26 witness: the Insert of ("1", column tagged 'x') was refused
C26_BadTagAfterColumn ==
    /\ payload = EncodeInsert(41, <<[tag |-> Ascii.t, bytes |-> <<49>>],
                                    [tag |-> 120, bytes |-> <<>>]>>)
    /\ decoded.st = "err"

\* C27: the two C strings of a Type message decode to the bytes before
\* their NULs, the second starting right after the first one's NUL; bytes
\* that are not UTF-8 give the invalid-UTF-8 error, a string with no NUL
\* before the end of the payload the unexpected-end error, and either way
\* decode returns that error.
C27_ReadCString ==
    \A a \in CStrings, b \in CStrings :
        /\ payload = EncodeType(a, b)
           => IF a \in ValidStrings /\ b \in ValidStrings
              THEN /\ decoded.st = "ok"
                   /\ decoded.msg.type = "Type"
                   /\ decoded.msg.namespace = a
                   /\ decoded.msg.name = b
              ELSE decoded = Err("InvalidUtf8")
        /\ payload = EncodeTypeCut(a, b)
           => IF a \in ValidStrings
              THEN decoded = Err("UnexpectedEof")
              ELSE decoded = Err("InvalidUtf8")

\* C27 witness: the Type with the two-byte namespace U+00E9 and the empty
\* name has been decoded
C27_TwoStringsRead ==
    /\ payload = EncodeType(<<195, 169>>, <<>>)
    /\ decoded.st = "ok"
    /\ decoded.msg.namespace = <<195, 169>>
    /\ decoded.msg.name = <<>>

\* C28: a well-formed tuple decodes to its column values, as many as the
\* payload has columns and in its order, a 't' column giving exactly its
\* declared bytes; what follows a tuple is read from the first byte after
\* it (the separator and new tuple of an Update are found after its old
\* tuple).
C28_TupleDataExact ==
    /\ \A cols \in Tuples :
           (/\ payload = EncodeInsert(41, cols)
            /\ \A i \in 1..Len(cols) : cols[i].tag \in ColumnTags)
           => /\ decoded.st = "ok"
              /\ Len(decoded.msg.tuple) = Len(cols)
              /\ decoded.msg.tuple = Values(cols)
    /\ \A old \in SmallTuples, new \in SmallTuples :
           payload = EncodeUpdateOld(41, Ascii.K, old, Ascii.N, new)
           => /\ decoded.st = "ok"
              /\ decoded.msg.old_tuple = Some(Values(old))
              /\ decoded.msg.new_tuple = Values(new)

\* C28 witness: the Insert of ("1", NULL) has been decoded to those two
\* values
C28_TwoColumnsDecoded ==
    /\ payload = EncodeInsert(41, <<[tag |-> Ascii.t, bytes |-> <<49>>],
                                    [tag |-> Ascii.n, bytes |-> <<>>]>>)
    /\ decoded.st = "ok"
    /\ decoded.msg.tuple = <<Some(<<49>>), None>>

\* C29: a start_lsn text that is not a valid LSN is refused before
\* streaming starts: whenever the reader connects, the start position it
\* connects with is the configured one (0 when none is configured), so a
\* reader configured with an invalid text never connects.
C29_StartLsnAsConfigured ==
    [][Len(clients') > Len(clients)
       => IF start_lsn = None
          THEN start_used' = Some(0)
          ELSE /\ Lsn_parse(start_lsn[1]).st = "ok"
               /\ start_used' = Some(Lsn_parse(start_lsn[1]).v)
      ]_vars

RECURSIVE TrailingWaits(_)
\* the number of waits since the last new() or reset()
TrailingWaits(log) ==
    IF Len(log) = 0 \/ log[Len(log)] # "wait" THEN 0
    ELSE TrailingWaits(Take(log, Len(log) - 1)) + 1

\* C30: after new() or reset(), the k-th consecutive wait (k >= 1) sleeps
\* min(100 * 2^(k-1), 30000) ms, current_delay is within [100, 30000] ms in
\* every reachable state, and attempts is the number of waits since the
\* last new() or reset().
C30_BackoffSchedule ==
    LET k == TrailingWaits(backoff_log) IN
    /\ attempts = k
    /\ current_delay >= 100 /\ current_delay <= 30000
    /\ k >= 1 => slept = (IF 100 * 2^(k - 1) <= 30000
                          THEN 100 * 2^(k - 1) ELSE 30000)

\* C30 witness: after a reset, ten waits in a row; the tenth has slept the
\* 30 s of the cap
C30_CapReachedAfterReset ==
    /\ Len(backoff_log) = 12
    /\ backoff_log[1] = "wait"
    /\ backoff_log[2] = "reset"
    /\ attempts = 10
    /\ slept = 30000
    /\ current_delay = 30000

\* C31: an acknowledge() that returns an error for an unparseable LSN text
\* or for a missing pending LSN leaves the reader state as it was: the
\* client is still in the shared state and still connected, and pending_lsn
\* and stopped keep their values.
C31_FailedAckKeepsState ==
    [][(/\ last'.ack # None
        /\ last'.ack[1].res \in {"InvalidLsnFormat", "NoPendingLsn"})
       => /\ IsSome(client')
          /\ client' = client
          /\ ~clients'[client'[1]].dropped
          /\ pending_lsn' = pending_lsn
          /\ stopped' = stopped
      ]_vars

\* C32: whatever recv() has returned (a row message, a skipped message, a
\* payload that does not decode, a non-data event, the end of the stream,
\* an error), the step of __anext__ that handles it puts the client it took
\* out back into the shared state, still connected.
C32_ClientPutBack ==
    [][\A t \in Tasks :
           Handled(t)
           => /\ client' = Some(held[t])
              /\ ~clients'[held[t]].dropped
      ]_vars

\* C33: stopped is absorbing; while it is set no step connects, a call of
\* __anext__ that starts goes to the head of its loop without connecting,
\* and a call at the head of its loop returns the end of the stream
\* without taking the client for recv().
C33_StoppedAbsorbing ==
    [][stopped
       => /\ stopped'
          /\ Len(clients') = Len(clients)
          /\ \A t \in Tasks :
                 /\ pc[t] = "idle" => pc'[t] \in {"idle", "loop"}
                 /\ pc[t] = "loop" => pc'[t] \in {"loop", "idle"}
                 /\ (pc[t] = "loop" /\ pc'[t] = "idle")
                    => last'.returned = Some("end")
      ]_vars

\* C33 witness: a reader stopped before it ever connected; a call of
\* __anext__ that started after the stop has returned the end of the stream
C33_EndAfterStop ==
    /\ stopped
    /\ clients = <<>>
    /\ last.returned = Some("end")

\* C34: the step that handles a KeepAlive returns nothing to the consumer,
\* leaves the relation cache, pending_lsn, stopped and the applied LSN of
\* the client as they were, puts the client back and continues the loop of
\* the same __anext__ call.
C34_KeepAliveNoEffect ==
    [][\A t \in Tasks :
           (Handled(t) /\ ev[t].kind = "KeepAlive")
           => /\ last'.returned = None
              /\ last'.calls = <<>>
              /\ ret' = ret
              /\ relations' = relations
              /\ pending_lsn' = pending_lsn
              /\ stopped' = stopped
              /\ clients'[held[t]].applied = clients[held[t]].applied
              /\ client' = Some(held[t])
              /\ pc'[t] = "loop"
      ]_vars

\* C34 witness: a KeepAlive has been handled while an LSN is pending and
\* a relation is cached
C34_KeepAliveHandled ==
    /\ last.event = Some("KeepAlive")
    /\ IsSome(pending_lsn)
    /\ relations # new_relations

\* C35: a consumer message is made of Insert, Update and Delete events
\* only, with op "c", "u" and "d": an Insert message has no before and an
\* after, a Delete message a before and no after, an Update message an
\* after, and a before exactly when the event carried an old tuple; events
\* of the other kinds, and payloads that do not decode, give no message.
C35_OnlyRowEventsConverted ==
    IF decoded.st = "ok"
    THEN LET m == decoded.msg IN
         /\ m.type \notin TupleTypes => converted = None
         /\ IsSome(converted)
            => LET r == converted[1] IN
               /\ m.type = "Insert"
                  => r.op = "c" /\ r.before = None /\ IsSome(r.after)
               /\ m.type = "Delete"
                  => r.op = "d" /\ IsSome(r.before) /\ r.after = None
               /\ m.type = "Update"
                  => /\ r.op = "u"
                     /\ IsSome(r.after)
                     /\ IsSome(r.before) <=> IsSome(m.old_tuple)
    ELSE converted = None

\* C35 witness: an Update that carried an old tuple has become a message
\* with both row images
C35_UpdateWithBeforeConverted ==
    /\ decoded.st = "ok"
    /\ decoded.msg.type = "Update"
    /\ IsSome(decoded.msg.old_tuple)
    /\ IsSome(converted)
    /\ IsSome(converted[1].before)

====
